---- MODULE Spec2Model ----
(***************************************************************************)
(* FraudShield: the decision rules (api/decision_engine.py), the audit    *)
(* logger (api/audit_logger.py), the API endpoints (api/main.py) and the   *)
(* retrieval explainer (rag/explainer.py).                                 *)
(*                                                                         *)
(* Scores are floats in the source.  The rules only compare them with     *)
(* four literals, so they are modelled in hundredths: 0.7 is 70, -0.15 is  *)
(* -15.  Only the order of a score relative to the thresholds matters.     *)
(***************************************************************************)
EXTENDS Integers, Sequences, FiniteSets, TLC

VARIABLES
    TRANSACTIONS,       \* main.py: in-memory transaction registry, newest first
    ANALYST_ACTIONS,    \* main.py: in-memory analyst-action registry
    _model,             \* explainer.py: cached embedding model, "None" or "loaded"
    _index,             \* explainer.py: cached vector index
    _chunks,            \* explainer.py: cached chunk list
    env,                \* what exists on disk: the index file, the chunk file, the embedding model
    logs_dir,           \* whether the logs/ directory exists
    audit_log,          \* logs/audit_log.jsonl: the file's characters, in order
    pc,                 \* per caller of log_decision: position in the function
    buf,                \* per caller of log_decision: its file object's write buffer
    logged,             \* history: the lines handed to the operating system, in order
    decisions,          \* history: the decisions make_decision has returned, in order
    args,               \* the arguments of the pure function under check
    ret,                \* the result of the last operation
    deploy,             \* what the process finds at import: the model files, the explainer's libraries
    app,                \* the API process: "not_started", "running" or "failed"
    loc,                \* the local variables of the calls in progress
    hist                \* history: what earlier calls returned or loaded

vars == <<TRANSACTIONS, ANALYST_ACTIONS, _model, _index, _chunks, env, logs_dir,
          audit_log, pc, buf, logged, decisions, args, ret, deploy, app, loc, hist>>

----------------------------------------------------------------------------
(* Bounds of the model. *)

MaxAnomaly == 20        \* anomaly_score ranges over -MaxAnomaly..MaxAnomaly hundredths
MaxFlag == 2            \* is_qr and beneficiary_is_new range over 0..MaxFlag

----------------------------------------------------------------------------
(* api/decision_engine.py: _apply_decision_rules *)

HIGH_FRAUD_THRESHOLD == 70
SOFT_FRAUD_THRESHOLD == 50
HIGH_ANOMALY_THRESHOLD == -15
SOFT_ANOMALY_THRESHOLD == -10

\* "_".join(reasons)
RECURSIVE JoinUnderscore(_)
JoinUnderscore(reasons) ==
    IF reasons = <<>> THEN ""
    ELSE IF Len(reasons) = 1 THEN reasons[1]
    ELSE reasons[1] \o "_" \o JoinUnderscore(Tail(reasons))

\* Mutant: the hard-block rule forgets the QR flag.
_apply_decision_rules_NoQr(fraud_probability, anomaly_score, is_qr, beneficiary_is_new) ==
    LET high_fraud == fraud_probability >= HIGH_FRAUD_THRESHOLD
        high_anomaly == anomaly_score <= HIGH_ANOMALY_THRESHOLD
        soft_fraud == fraud_probability >= SOFT_FRAUD_THRESHOLD
        soft_anomaly == anomaly_score <= SOFT_ANOMALY_THRESHOLD
        new_beneficiary == beneficiary_is_new = 1
        reasons == (IF soft_fraud THEN <<"FRAUD_SIGNAL">> ELSE <<>>)
                   \o (IF soft_anomaly THEN <<"ANOMALY_SIGNAL">> ELSE <<>>)
    IN  IF high_fraud /\ high_anomaly /\ new_beneficiary
        THEN <<"HARD_BLOCK", "QR_NEW_BENEFICIARY_HIGH_FRAUD_HIGH_ANOMALY">>
        ELSE IF soft_fraud \/ soft_anomaly
        THEN <<"SOFT_BLOCK", JoinUnderscore(reasons)>>
        ELSE <<"ALLOW", "NO_SIGNIFICANT_RISK">>

\* Mutant: the soft rule appends ANOMALY_SIGNAL before FRAUD_SIGNAL.
_apply_decision_rules_Swapped(fraud_probability, anomaly_score, is_qr, beneficiary_is_new) ==
    LET high_fraud == fraud_probability >= HIGH_FRAUD_THRESHOLD
        high_anomaly == anomaly_score <= HIGH_ANOMALY_THRESHOLD
        soft_fraud == fraud_probability >= SOFT_FRAUD_THRESHOLD
        soft_anomaly == anomaly_score <= SOFT_ANOMALY_THRESHOLD
        qr_payment == is_qr = 1
        new_beneficiary == beneficiary_is_new = 1
        reasons == (IF soft_anomaly THEN <<"ANOMALY_SIGNAL">> ELSE <<>>)
                   \o (IF soft_fraud THEN <<"FRAUD_SIGNAL">> ELSE <<>>)
    IN  IF high_fraud /\ high_anomaly /\ qr_payment /\ new_beneficiary
        THEN <<"HARD_BLOCK", "QR_NEW_BENEFICIARY_HIGH_FRAUD_HIGH_ANOMALY">>
        ELSE IF soft_fraud \/ soft_anomaly
        THEN <<"SOFT_BLOCK", JoinUnderscore(reasons)>>
        ELSE <<"ALLOW", "NO_SIGNIFICANT_RISK">>

\* Mutant: the soft anomaly comparison is strict.
_apply_decision_rules_Strict(fraud_probability, anomaly_score, is_qr, beneficiary_is_new) ==
    LET high_fraud == fraud_probability >= HIGH_FRAUD_THRESHOLD
        high_anomaly == anomaly_score <= HIGH_ANOMALY_THRESHOLD
        soft_fraud == fraud_probability >= SOFT_FRAUD_THRESHOLD
        soft_anomaly == anomaly_score < SOFT_ANOMALY_THRESHOLD
        qr_payment == is_qr = 1
        new_beneficiary == beneficiary_is_new = 1
        reasons == (IF soft_fraud THEN <<"FRAUD_SIGNAL">> ELSE <<>>)
                   \o (IF soft_anomaly THEN <<"ANOMALY_SIGNAL">> ELSE <<>>)
    IN  IF high_fraud /\ high_anomaly /\ qr_payment /\ new_beneficiary
        THEN <<"HARD_BLOCK", "QR_NEW_BENEFICIARY_HIGH_FRAUD_HIGH_ANOMALY">>
        ELSE IF soft_fraud \/ soft_anomaly
        THEN <<"SOFT_BLOCK", JoinUnderscore(reasons)>>
        ELSE <<"ALLOW", "NO_SIGNIFICANT_RISK">>

\* Returns <<decision, reason_code>>.
_apply_decision_rules(fraud_probability, anomaly_score, is_qr, beneficiary_is_new) ==
    LET high_fraud == fraud_probability >= HIGH_FRAUD_THRESHOLD
        high_anomaly == anomaly_score <= HIGH_ANOMALY_THRESHOLD
        soft_fraud == fraud_probability >= SOFT_FRAUD_THRESHOLD
        soft_anomaly == anomaly_score <= SOFT_ANOMALY_THRESHOLD
        qr_payment == is_qr = 1
        new_beneficiary == beneficiary_is_new = 1
        reasons == (IF soft_fraud THEN <<"FRAUD_SIGNAL">> ELSE <<>>)
                   \o (IF soft_anomaly THEN <<"ANOMALY_SIGNAL">> ELSE <<>>)
    IN  IF high_fraud /\ high_anomaly /\ qr_payment /\ new_beneficiary
        THEN <<"HARD_BLOCK", "QR_NEW_BENEFICIARY_HIGH_FRAUD_HIGH_ANOMALY">>
        ELSE IF soft_fraud \/ soft_anomaly
        THEN <<"SOFT_BLOCK", JoinUnderscore(reasons)>>
        ELSE <<"ALLOW", "NO_SIGNIFICANT_RISK">>

----------------------------------------------------------------------------
(* Values shared by the specifications. *)

NoArgs == [op |-> "none"]
NoRet == [kind |-> "none"]
NoLocals == [op |-> "none"]
NoHistory == [op |-> "none"]

\* Everything the imports of api/main.py need is in place and the process runs.
Deployed == [fraud_model_file |-> "ok", anomaly_model_file |-> "ok",
             explainer_libraries |-> "ok"]

\* The state of the parts of the program a specification does not exercise.
Quiet ==
    /\ TRANSACTIONS = <<>>
    /\ ANALYST_ACTIONS = <<>>
    /\ _model = "None"
    /\ _index = "None"
    /\ _chunks = "None"
    /\ env = [index_file |-> "ok", chunks_file |-> "ok", embedding_model |-> "ok"]
    /\ logs_dir = FALSE
    /\ audit_log = <<>>
    /\ pc = <<>>
    /\ buf = <<>>
    /\ logged = <<>>
    /\ decisions = <<>>
    /\ deploy = Deployed
    /\ app = "running"
    /\ loc = NoLocals
    /\ hist = NoHistory

----------------------------------------------------------------------------
(* SpecRules: _apply_decision_rules applied to every input of the grid. *)

RuleInputs ==
    [fraud_probability : 0..100,
     anomaly_score : (0 - MaxAnomaly)..MaxAnomaly,
     is_qr : 0..MaxFlag,
     beneficiary_is_new : 0..MaxFlag]

InitRules ==
    /\ Quiet
    /\ args \in RuleInputs
    /\ ret = NoRet

ApplyDecisionRules ==
    /\ ret.kind = "none"
    /\ ret' = [kind |-> "return",
               value |-> _apply_decision_rules(args.fraud_probability, args.anomaly_score,
                                               args.is_qr, args.beneficiary_is_new)]
    /\ UNCHANGED <<deploy, app, loc, hist, TRANSACTIONS, ANALYST_ACTIONS, _model, _index, _chunks, env, logs_dir,
                   audit_log, pc, buf, logged, decisions, args>>

NextRules == ApplyDecisionRules

SpecRules == InitRules /\ [][NextRules]_vars

RulesApplied == ret.kind = "return"

\* C1: the result is HARD_BLOCK exactly when fraud_probability >= 0.7 and
\* anomaly_score <= -0.15 and is_qr = 1 and beneficiary_is_new = 1, and a
\* HARD_BLOCK always carries the reason code
\* QR_NEW_BENEFICIARY_HIGH_FRAUD_HIGH_ANOMALY.
C1_HardBlockIff ==
    RulesApplied =>
        /\ (ret.value[1] = "HARD_BLOCK") <=>
               (/\ args.fraud_probability >= 70
                /\ args.anomaly_score <= -15
                /\ args.is_qr = 1
                /\ args.beneficiary_is_new = 1)
        /\ (ret.value[1] = "HARD_BLOCK") =>
               ret.value[2] = "QR_NEW_BENEFICIARY_HIGH_FRAUD_HIGH_ANOMALY"

\* A hard block at both inclusive thresholds.
C1_Witness ==
    /\ RulesApplied
    /\ args.fraud_probability = 70
    /\ args.anomaly_score = -15
    /\ ret.value[1] = "HARD_BLOCK"

HardRuleMatches ==
    /\ args.fraud_probability >= 70
    /\ args.anomaly_score <= -15
    /\ args.is_qr = 1
    /\ args.beneficiary_is_new = 1

\* C2: when the hard-block rule does not match, the result is SOFT_BLOCK
\* exactly when fraud_probability >= 0.5 or anomaly_score <= -0.10, and the
\* reason code is FRAUD_SIGNAL, ANOMALY_SIGNAL or FRAUD_SIGNAL_ANOMALY_SIGNAL
\* according to which of the two conditions hold.
C2_SoftBlockIff ==
    (RulesApplied /\ ~HardRuleMatches) =>
        LET fraud == args.fraud_probability >= 50
            anomaly == args.anomaly_score <= -10
        IN  /\ (ret.value[1] = "SOFT_BLOCK") <=> (fraud \/ anomaly)
            /\ (fraud /\ ~anomaly) => ret.value[2] = "FRAUD_SIGNAL"
            /\ (~fraud /\ anomaly) => ret.value[2] = "ANOMALY_SIGNAL"
            /\ (fraud /\ anomaly) => ret.value[2] = "FRAUD_SIGNAL_ANOMALY_SIGNAL"

\* Both signals fire while the hard rule misses on is_qr (0.9, -0.2, is_qr = 0).
C2_Witness ==
    /\ RulesApplied
    /\ args.fraud_probability = 90
    /\ args.anomaly_score = -20
    /\ args.is_qr = 0
    /\ ret.value = <<"SOFT_BLOCK", "FRAUD_SIGNAL_ANOMALY_SIGNAL">>

\* C3: the result is ALLOW with reason code NO_SIGNIFICANT_RISK exactly when
\* fraud_probability < 0.5 and anomaly_score > -0.10, whatever the flags;
\* every result has one of the three categories and a non-empty reason code.
C3_AllowIff ==
    RulesApplied =>
        /\ (ret.value[1] = "ALLOW") <=>
               (args.fraud_probability < 50 /\ args.anomaly_score > -10)
        /\ (ret.value[1] = "ALLOW") => ret.value[2] = "NO_SIGNIFICANT_RISK"
        /\ ret.value[1] \in {"ALLOW", "SOFT_BLOCK", "HARD_BLOCK"}
        /\ Len(ret.value[2]) > 0

\* An ALLOW just inside both soft thresholds, with both flags set.
C3_Witness ==
    /\ RulesApplied
    /\ args.fraud_probability = 49
    /\ args.anomaly_score = -9
    /\ args.is_qr = 1
    /\ args.beneficiary_is_new = 1
    /\ ret.value = <<"ALLOW", "NO_SIGNIFICANT_RISK">>

----------------------------------------------------------------------------
(* api/decision_engine.py: make_decision, and the scoring models it calls. *)

MaxRows == 2            \* a DataFrame has 0..MaxRows rows
MaxDecisions == 1       \* make_decision returns at most this many decisions in a run

Raise(e) == [kind |-> "raise", error |-> e]
Return(v) == [kind |-> "return", value |-> v]

\* A pandas DataFrame: ordered column names and rows of values aligned with them.
DataFrame(columns, rows) == [is_dataframe |-> TRUE, columns |-> columns, rows |-> rows]

\* Anything that is not a DataFrame (a dict, a list, None).
NotADataFrame == [is_dataframe |-> FALSE, columns |-> <<>>, rows |-> <<>>]

HasColumn(feature_row, name) ==
    \E i \in 1..Len(feature_row.columns) : feature_row.columns[i] = name

\* feature_row[name].iloc[0]
FirstValue(feature_row, name) ==
    LET i == CHOOSE j \in 1..Len(feature_row.columns) : feature_row.columns[j] = name
    IN  feature_row.rows[1][i]

\* What a call of a scoring model can do: raise, or return a score (hundredths).
ModelRaises == [ok |-> FALSE, v |-> 0]
ModelReturns(v) == [ok |-> TRUE, v |-> v]

\* The two loaded models as make_decision sees them: a fraud model with
\* predict_proba, or one with predict alone, which returns a class label that
\* float() turns into 0.0 or 1.0.
Oracles ==
    [has_predict_proba : {TRUE},
     predict_proba : {ModelRaises, ModelReturns(90)},
     predict : {ModelReturns(0)},
     decision_function : {ModelRaises, ModelReturns(-20), ModelReturns(5)}]
    \cup
    [has_predict_proba : {FALSE},
     predict_proba : {ModelRaises},
     predict : {ModelReturns(0)},
     decision_function : {ModelRaises, ModelReturns(-20), ModelReturns(5)}]

\* Mutant: a missing rule feature is read as 0 instead of raising.
make_decision_Defaulting(feature_row, oracle) ==
    IF ~feature_row.is_dataframe
    THEN Raise("ValueError")
    ELSE IF Len(feature_row.rows) # 1
    THEN Raise("ValueError")
    ELSE
        LET fraud == IF oracle.has_predict_proba
                     THEN oracle.predict_proba
                     ELSE ModelReturns(100 * oracle.predict.v)
            anomaly == oracle.decision_function
        IN  IF ~fraud.ok \/ ~anomaly.ok
            THEN Raise("ModelError")
            ELSE
                LET is_qr == IF HasColumn(feature_row, "is_qr")
                             THEN FirstValue(feature_row, "is_qr") ELSE 0
                    beneficiary_is_new ==
                        IF HasColumn(feature_row, "beneficiary_is_new")
                        THEN FirstValue(feature_row, "beneficiary_is_new") ELSE 0
                    rule == _apply_decision_rules(fraud.v, anomaly.v, is_qr,
                                                  beneficiary_is_new)
                IN  Return([decision |-> rule[1],
                            risk_score |-> fraud.v,
                            anomaly_score |-> anomaly.v,
                            reason_code |-> rule[2]])

\* The result of make_decision(feature_row): a raised exception or the decision dict.
make_decision(feature_row, oracle) ==
    IF ~feature_row.is_dataframe
    THEN Raise("ValueError")
    ELSE IF Len(feature_row.rows) # 1
    THEN Raise("ValueError")
    ELSE
        LET fraud == IF oracle.has_predict_proba
                     THEN oracle.predict_proba
                     ELSE ModelReturns(100 * oracle.predict.v)
            anomaly == oracle.decision_function
        IN  IF ~fraud.ok
            THEN Raise("ModelError")
            ELSE IF ~anomaly.ok
            THEN Raise("ModelError")
            ELSE IF ~HasColumn(feature_row, "is_qr")
            THEN Raise("KeyError")
            ELSE IF ~HasColumn(feature_row, "beneficiary_is_new")
            THEN Raise("KeyError")
            ELSE
                LET rule == _apply_decision_rules(
                                fraud.v, anomaly.v,
                                FirstValue(feature_row, "is_qr"),
                                FirstValue(feature_row, "beneficiary_is_new"))
                IN  Return([decision |-> rule[1],
                            risk_score |-> fraud.v,
                            anomaly_score |-> anomaly.v,
                            reason_code |-> rule[2]])

----------------------------------------------------------------------------
(* api/audit_logger.py: log_decision. *)

MaxWriters == 2         \* concurrent callers of log_decision
MaxCalls == 3           \* calls of log_decision started in a run

\* feature_row.values.flatten(): the cells, row by row, in column order.
RECURSIVE Flatten(_)
Flatten(rows) ==
    IF rows = <<>> THEN <<>> ELSE Head(rows) \o Flatten(Tail(rows))

\* ",".join(str(v) for v in feature_values); the cells are integers.
RECURSIVE JoinComma(_)
JoinComma(values) ==
    IF values = <<>> THEN ""
    ELSE IF Len(values) = 1 THEN ToString(values[1])
    ELSE ToString(values[1]) \o "," \o JoinComma(Tail(values))

\* hashlib.sha256(s).hexdigest(): SHA-256 is taken to be collision-free, so
\* the digest is a one-to-one image of the string hashed.
Sha256Hex(str) == "sha256:" \o str

FeatureHash(feature_row) == Sha256Hex(JoinComma(Flatten(feature_row.rows)))

\* json.dumps(audit_record) + "\n": the line's characters, one element per
\* JSON token, keys in insertion order; json escapes any newline in a value.
AuditLine(call, timestamp) ==
    <<"{", ToString(timestamp), call.decision, ToString(call.risk_score),
      ToString(call.anomaly_score), call.reason_code, FeatureHash(call.feature_row),
      call.model_versions, "}", "\n">>

\* open(path, "a"): the file keeps its content; the handle starts at the end.
FileOpen_Truncate(file) == <<>>

FileOpen(file) == file

\* Mutant: the data goes to the position the handle had when it was opened.
FileWrite_AtHandlePosition(file, position, data) ==
    SubSeq(file, 1, position) \o data
        \o SubSeq(file, position + Len(data) + 1, Len(file))

\* write(2) on a handle opened with O_APPEND: the data goes to the end of the
\* file in one step, whatever the handle's position.
FileWrite(file, position, data) == file \o data

NoBuffer == [line |-> <<>>, position |-> 0]

\* The calls the callers make.
LogCalls ==
    {[decision |-> "ALLOW", risk_score |-> 0, anomaly_score |-> 5,
      reason_code |-> "NO_SIGNIFICANT_RISK",
      feature_row |-> DataFrame(<<"amount", "is_qr", "beneficiary_is_new">>, <<<<1, 0, 0>>>>),
      model_versions |-> "v1"],
     [decision |-> "HARD_BLOCK", risk_score |-> 90, anomaly_score |-> -20,
      reason_code |-> "QR_NEW_BENEFICIARY_HIGH_FRAUD_HIGH_ANOMALY",
      feature_row |-> DataFrame(<<"amount", "is_qr", "beneficiary_is_new">>, <<<<1, 1, 1>>>>),
      model_versions |-> "v1"]}

Writers == 1..MaxWriters

CallsStarted == Len(logged) + Cardinality({w \in Writers : pc[w] # "idle"})

\* logs_dir.mkdir(exist_ok=True), then the hash and the record are computed.
LogMkdir(w) ==
    /\ pc[w] = "idle"
    /\ CallsStarted < MaxCalls
    /\ \E call \in LogCalls, timestamp \in 0..1 :
        buf' = [buf EXCEPT ![w] = [line |-> AuditLine(call, timestamp), position |-> 0]]
    /\ logs_dir' = TRUE
    /\ pc' = [pc EXCEPT ![w] = "record"]
    /\ UNCHANGED <<deploy, app, loc, hist, TRANSACTIONS, ANALYST_ACTIONS, _model, _index, _chunks, env,
                   audit_log, logged, decisions, args, ret>>

\* with open(audit_log_path, "a", encoding="utf-8") as f
LogOpen(w) ==
    /\ pc[w] = "record"
    /\ audit_log' = FileOpen(audit_log)
    /\ buf' = [buf EXCEPT ![w].position = Len(audit_log')]
    /\ pc' = [pc EXCEPT ![w] = "open"]
    /\ UNCHANGED <<deploy, app, loc, hist, TRANSACTIONS, ANALYST_ACTIONS, _model, _index, _chunks, env,
                   logs_dir, logged, decisions, args, ret>>

\* f.write(line): the text stays in the file object's buffer.
LogWrite(w) ==
    /\ pc[w] = "open"
    /\ pc' = [pc EXCEPT ![w] = "written"]
    /\ UNCHANGED <<deploy, app, loc, hist, TRANSACTIONS, ANALYST_ACTIONS, _model, _index, _chunks, env,
                   logs_dir, audit_log, buf, logged, decisions, args, ret>>

\* Leaving the with block closes the file: the buffer is flushed in one write.
LogClose(w) ==
    /\ pc[w] = "written"
    /\ audit_log' = FileWrite(audit_log, buf[w].position, buf[w].line)
    /\ logged' = Append(logged, buf[w].line)
    /\ buf' = [buf EXCEPT ![w] = NoBuffer]
    /\ pc' = [pc EXCEPT ![w] = "idle"]
    /\ UNCHANGED <<deploy, app, loc, hist, TRANSACTIONS, ANALYST_ACTIONS, _model, _index, _chunks, env,
                   logs_dir, decisions, args, ret>>

----------------------------------------------------------------------------
(* api/main.py: the /decision endpoint. *)

MaxTxns == 2            \* the transaction registry holds at most this many records

SAFE_ALLOW_RESPONSE ==
    [decision |-> "ALLOW", risk_score |-> 0, anomaly_score |-> 0,
     reason_code |-> "INPUT_VALIDATION_FAILED"]

\* TransactionPayload, within its Field constraints.
Payloads ==
    [amount : {22000},
     txn_hour : {23},
     is_qr : 0..1,
     beneficiary_age_min : {0, 10},
     device_changed : {1},
     location_velocity : {1},
     failed_auth_24h : {4}]

\* The one-row DataFrame the endpoint builds from the payload.
PayloadFeatureRow(payload) ==
    DataFrame(<<"amount", "txn_hour", "is_qr", "beneficiary_age_min", "device_changed",
                "location_velocity", "failed_auth_24h">>,
              <<<<payload.amount, payload.txn_hour, payload.is_qr,
                  payload.beneficiary_age_min, payload.device_changed,
                  payload.location_velocity, payload.failed_auth_24h>>>>)

\* uuid4().hex[:8] draws the transaction id; the timestamp is left out.
TxnIds == {"txn_a", "txn_b"}

add_transaction(registry, record) == <<record>> \o registry

\* The transaction record the handler builds from the payload and the decision.
txn_record(payload, decision, txn_id) ==
    [txn_id |-> txn_id,
     amount |-> payload.amount,
     decision |-> decision.decision,
     risk_score |-> decision.risk_score,
     anomaly_score |-> decision.anomaly_score,
     reason_code |-> decision.reason_code]

Handled(response, registry) == [ret |-> Return(response), TRANSACTIONS |-> registry]

\* Mutant: the fallback answer is stored as a transaction too.
get_fraud_decision_StoringFallback(payload, decision, txn_id, registry) ==
    IF decision.kind = "return"
    THEN Handled(decision.value,
                 add_transaction(registry, txn_record(payload, decision.value, txn_id)))
    ELSE Handled(SAFE_ALLOW_RESPONSE,
                 add_transaction(registry, txn_record(payload, SAFE_ALLOW_RESPONSE, txn_id)))

\* The body of get_fraud_decision once make_decision has returned or raised:
\* the answer and the registry after it.
get_fraud_decision(payload, decision, txn_id, registry) ==
    IF decision.kind = "return"
    THEN Handled(decision.value,
                 add_transaction(registry, txn_record(payload, decision.value, txn_id)))
    ELSE Handled(SAFE_ALLOW_RESPONSE, registry)

\* POST /decision.  Nothing in the handler calls log_decision.
GetFraudDecision ==
    /\ Len(TRANSACTIONS) < MaxTxns
    /\ \E payload \in Payloads, oracle \in Oracles, txn_id \in TxnIds :
        LET decision == make_decision(PayloadFeatureRow(payload), oracle)
            handled == get_fraud_decision(payload, decision, txn_id, TRANSACTIONS)
        IN  /\ args' = [op |-> "/decision", payload |-> payload, oracle |-> oracle]
            /\ TRANSACTIONS' = handled.TRANSACTIONS
            /\ ret' = handled.ret
            /\ decisions' = IF decision.kind = "return"
                            THEN Append(decisions, decision.value)
                            ELSE decisions
    /\ UNCHANGED <<deploy, app, loc, hist, ANALYST_ACTIONS, _model, _index, _chunks, env,
                   logs_dir, audit_log, pc, buf, logged>>

----------------------------------------------------------------------------
(* SpecDecision: make_decision called directly (as the test scripts do) and *)
(* through the /decision endpoint.                                          *)

ColumnLists ==
    {<<"amount", "is_qr", "beneficiary_is_new">>,
     <<"amount", "is_qr">>,
     <<"amount", "beneficiary_is_new">>,
     <<"amount">>}

\* One row of values for a column list: flags in 0..1, the amount fixed.
RowValues(columns) ==
    {r \in [1..Len(columns) -> 0..1] :
        \A i \in 1..Len(columns) : columns[i] = "amount" => r[i] = 1}

FeatureRows ==
    {NotADataFrame} \cup
    UNION {{DataFrame(columns, [i \in 1..n |-> r]) :
                n \in 0..MaxRows, r \in RowValues(columns)} : columns \in ColumnLists}

InitDecision ==
    /\ Quiet
    /\ args = NoArgs
    /\ ret = NoRet

\* make_decision(feature_row), called directly.
MakeDecision ==
    \E feature_row \in FeatureRows, oracle \in Oracles :
        LET decision == make_decision(feature_row, oracle)
        IN  /\ decision.kind = "return" => Len(decisions) < MaxDecisions
            /\ args' = [op |-> "make_decision", feature_row |-> feature_row,
                        oracle |-> oracle]
            /\ ret' = decision
            /\ decisions' = IF decision.kind = "return"
                            THEN Append(decisions, decision.value)
                            ELSE decisions
            /\ UNCHANGED <<deploy, app, loc, hist, TRANSACTIONS, ANALYST_ACTIONS, _model, _index, _chunks, env,
                           logs_dir, audit_log, pc, buf, logged>>

NextDecision == MakeDecision \/ GetFraudDecision

SpecDecision == InitDecision /\ [][NextDecision]_vars

\* The complete lines of the audit log: the log split at its newlines.  A
\* trailing piece without a newline is not a record.
RECURSIVE SplitLines(_, _)
SplitLines(chars, line) ==
    IF chars = <<>> THEN <<>>
    ELSE IF Head(chars) = "\n" THEN <<line>> \o SplitLines(Tail(chars), <<>>)
    ELSE SplitLines(Tail(chars), Append(line, Head(chars)))

AuditLines == SplitLines(audit_log, <<>>)

\* C4: every decision make_decision has returned has its audit record: the
\* audit log holds one record per decision, in the order of the decisions.
C4_OneAuditRecordPerDecision ==
    /\ Len(AuditLines) = Len(decisions)
    /\ \A i \in 1..Len(decisions) :
           \E j \in 1..Len(AuditLines[i]) :
               AuditLines[i][j] = decisions[i].reason_code

MalformedInput(feature_row) ==
    \/ ~feature_row.is_dataframe
    \/ Len(feature_row.rows) # 1
    \/ ~HasColumn(feature_row, "is_qr")
    \/ ~HasColumn(feature_row, "beneficiary_is_new")

\* C8: make_decision called with something that is not a DataFrame, with a
\* DataFrame that has not exactly one row, or with a row that lacks is_qr or
\* beneficiary_is_new raises and returns no decision.
C8_MalformedInputRaises ==
    (args.op = "make_decision" /\ MalformedInput(args.feature_row)) =>
        /\ ret.kind = "raise"
        /\ ret.error \in {"ValueError", "KeyError", "ModelError"}

\* A one-row DataFrame without beneficiary_is_new, both models answering:
\* the lookup of the missing column raises.
C8_Witness ==
    /\ args.op = "make_decision"
    /\ args.feature_row.is_dataframe
    /\ Len(args.feature_row.rows) = 1
    /\ HasColumn(args.feature_row, "is_qr")
    /\ ~HasColumn(args.feature_row, "beneficiary_is_new")
    /\ args.oracle.has_predict_proba
    /\ args.oracle.predict_proba.ok
    /\ args.oracle.decision_function.ok
    /\ ret.kind = "raise"
    /\ ret.error = "KeyError"


----------------------------------------------------------------------------
(* SpecAudit: concurrent callers of log_decision on one audit_log.jsonl. *)

InitAudit ==
    /\ TRANSACTIONS = <<>>
    /\ ANALYST_ACTIONS = <<>>
    /\ _model = "None"
    /\ _index = "None"
    /\ _chunks = "None"
    /\ env = [index_file |-> "ok", chunks_file |-> "ok", embedding_model |-> "ok"]
    /\ logs_dir \in BOOLEAN
    /\ audit_log = <<>>
    /\ pc = [w \in Writers |-> "idle"]
    /\ buf = [w \in Writers |-> NoBuffer]
    /\ logged = <<>>
    /\ decisions = <<>>
    /\ deploy = Deployed
    /\ app = "running"
    /\ loc = NoLocals
    /\ hist = NoHistory
    /\ args = NoArgs
    /\ ret = NoRet

NextAudit ==
    \E w \in Writers : LogMkdir(w) \/ LogOpen(w) \/ LogWrite(w) \/ LogClose(w)

SpecAudit == InitAudit /\ [][NextAudit]_vars

IsPrefix(s, t) == Len(s) <= Len(t) /\ SubSeq(t, 1, Len(s)) = s

\* One complete record, newline included: braces at both ends, one newline, at the end.
IsRecordLine(line) ==
    /\ Len(line) = 10
    /\ line[1] = "{"
    /\ line[9] = "}"
    /\ line[10] = "\n"
    /\ \A i \in 2..8 : line[i] \notin {"{", "}", "\n"}

\* C5: a step either leaves the audit log alone or adds exactly one record at
\* its end; what the log already held stays, in place and unchanged.
C5_AppendOnly ==
    [][\/ audit_log' = audit_log
       \/ /\ IsPrefix(audit_log, audit_log')
          /\ IsRecordLine(SubSeq(audit_log', Len(audit_log) + 1, Len(audit_log')))
          /\ Len(SplitLines(audit_log', <<>>)) = Len(AuditLines) + 1]_vars

\* Two records in the log: the second was appended behind the first.
C5_Witness ==
    /\ Len(AuditLines) = 2
    /\ Len(audit_log) = 20

RECURSIVE ConcatAll(_)
ConcatAll(lines) ==
    IF lines = <<>> THEN <<>> ELSE Head(lines) \o ConcatAll(Tail(lines))

\* C6: under every interleaving of the callers the log is the sequence of the
\* complete records written so far, one per line: none is cut or mixed with
\* another, and none is lost.
C6_WholeRecords ==
    /\ Len(AuditLines) = Len(logged)
    /\ audit_log = ConcatAll(logged)
    /\ \A i \in 1..Len(AuditLines) : IsRecordLine(Append(AuditLines[i], "\n"))

\* Two callers had the file open at the same time, and both records are in the log.
C6_Witness ==
    /\ Len(logged) = 1
    /\ Len(AuditLines) = 1
    /\ \E w \in Writers : pc[w] = "written" /\ buf[w].position = 0

----------------------------------------------------------------------------
(* SpecHash: the feature hash of log_decision on pairs of one-row frames. *)

MaxCell == 1            \* a cell of a hashed feature row ranges over 0..MaxCell

\* The orders in which a caller's dict can list the three columns.
ColumnOrders ==
    {<<"amount", "is_qr", "beneficiary_is_new">>,
     <<"amount", "beneficiary_is_new", "is_qr">>,
     <<"is_qr", "amount", "beneficiary_is_new">>,
     <<"is_qr", "beneficiary_is_new", "amount">>,
     <<"beneficiary_is_new", "amount", "is_qr">>,
     <<"beneficiary_is_new", "is_qr", "amount">>}

HashRows ==
    {DataFrame(columns, <<r>>) : columns \in ColumnOrders, r \in [1..3 -> 0..MaxCell]}

InitHash ==
    /\ Quiet
    /\ args \in [op : {"feature_hash"}, a : HashRows, b : HashRows]
    /\ ret = NoRet

\* The hash lines of log_decision, run on both rows.
HashBoth ==
    /\ ret.kind = "none"
    /\ ret' = Return([a |-> FeatureHash(args.a), b |-> FeatureHash(args.b)])
    /\ UNCHANGED <<deploy, app, loc, hist, TRANSACTIONS, ANALYST_ACTIONS, _model, _index, _chunks, env, logs_dir,
                   audit_log, pc, buf, logged, decisions, args>>

NextHash == HashBoth

SpecHash == InitHash /\ [][NextHash]_vars

\* Both rows bind the same value to every named field.
SameBindings(a, b) ==
    /\ \A i \in 1..Len(a.columns) : HasColumn(b, a.columns[i])
    /\ \A i \in 1..Len(b.columns) : HasColumn(a, b.columns[i])
    /\ \A i \in 1..Len(a.columns) :
           FirstValue(a, a.columns[i]) = FirstValue(b, a.columns[i])

\* C7: two feature rows that bind the same value to every named field have
\* the same feature_hash, whatever the order of their columns.
C7_HashIgnoresColumnOrder ==
    (ret.kind = "return" /\ SameBindings(args.a, args.b)) => ret.value.a = ret.value.b

----------------------------------------------------------------------------
(* rag/explainer.py: the lazily loaded model, index and chunk list, and     *)
(* explain_decision; api/main.py: the /explain endpoint.                     *)

\* The module's three globals.
Cache == [model |-> _model, index |-> _index, chunks |-> _chunks]

\* What the process can find: each file is missing, unreadable or good; the
\* embedding model can be constructed or not.
Environments ==
    [index_file : {"missing", "corrupt", "ok"},
     chunks_file : {"missing", "corrupt", "ok"},
     embedding_model : {"missing", "ok"}]

Loaded(cache, error) == [cache |-> cache, error |-> error]

\* _load_model: SentenceTransformer(MODEL_NAME) on first use.
_load_model(cache, e) ==
    IF cache.model = "None"
    THEN IF e.embedding_model = "ok"
         THEN Loaded([cache EXCEPT !.model = "loaded"], "")
         ELSE Loaded(cache, "OSError")
    ELSE Loaded(cache, "")

\* _load_index_and_chunks: the index first, then the chunk list; an index
\* that was read stays cached when the chunk list then fails.
_load_index_and_chunks(cache, e) ==
    LET withIndex ==
            IF cache.index = "None"
            THEN IF e.index_file = "missing" THEN Loaded(cache, "FileNotFoundError")
                 ELSE IF e.index_file = "corrupt" THEN Loaded(cache, "RuntimeError")
                 ELSE Loaded([cache EXCEPT !.index = "loaded"], "")
            ELSE Loaded(cache, "")
    IN  IF withIndex.error # "" THEN withIndex
        ELSE IF withIndex.cache.chunks = "None"
        THEN IF e.chunks_file = "missing"
             THEN Loaded(withIndex.cache, "FileNotFoundError")
             ELSE IF e.chunks_file = "corrupt"
             THEN Loaded(withIndex.cache, "UnpicklingError")
             ELSE Loaded([withIndex.cache EXCEPT !.chunks = "loaded"], "")
        ELSE withIndex

Outcome(result, cache) == [ret |-> result, cache |-> cache]

\* The explanation text: the header naming the reason code and the opening of
\* the summary line; the retrieved sentences that follow are left out here.
Explanation(reason_code) ==
    "Explanation for reason code '" \o reason_code \o "':\nSummary: "

\* Mutant: the empty reason code is rejected only after the loads.
explain_decision_LoadFirst(reason_code, cache, e) ==
    LET m == _load_model(cache, e)
        ic == _load_index_and_chunks(m.cache, e)
    IN  IF m.error # "" THEN Outcome(Raise(m.error), m.cache)
        ELSE IF ic.error # "" THEN Outcome(Raise(ic.error), ic.cache)
        ELSE IF reason_code = "" THEN Outcome(Raise("ValueError"), ic.cache)
        ELSE Outcome(Return(Explanation(reason_code)), ic.cache)

\* Mutant: a call that finds the index already cached words its answer differently.
explain_decision_CacheSensitive(reason_code, cache, e) ==
    LET m == _load_model(cache, e)
        ic == _load_index_and_chunks(m.cache, e)
    IN  IF reason_code = "" THEN Outcome(Raise("ValueError"), cache)
        ELSE IF m.error # "" THEN Outcome(Raise(m.error), m.cache)
        ELSE IF ic.error # "" THEN Outcome(Raise(ic.error), ic.cache)
        ELSE IF cache.index = "None"
        THEN Outcome(Return(Explanation(reason_code)), ic.cache)
        ELSE Outcome(Return(Explanation(reason_code) \o "(cached)"), ic.cache)

\* explain_decision(reason_code): what it raises or returns, and the globals after it.
explain_decision(reason_code, cache, e) ==
    IF reason_code = ""
    THEN Outcome(Raise("ValueError"), cache)
    ELSE
        LET m == _load_model(cache, e)
        IN  IF m.error # "" THEN Outcome(Raise(m.error), m.cache)
            ELSE
                LET ic == _load_index_and_chunks(m.cache, e)
                IN  IF ic.error # "" THEN Outcome(Raise(ic.error), ic.cache)
                    ELSE Outcome(Return(Explanation(reason_code)), ic.cache)

\* Mutant: the endpoint lets the exception through.
explain_Propagating(reason_code, cache, e) ==
    IF Len(reason_code) < 1
    THEN Outcome([kind |-> "rejected", status |-> 422], cache)
    ELSE
        LET r == explain_decision(reason_code, cache, e)
        IN  IF r.ret.kind = "return"
            THEN Outcome(Return([reason_code |-> reason_code,
                                 explanation |-> r.ret.value]), r.cache)
            ELSE r

\* POST /explain: ExplainPayload refuses an empty reason_code before the
\* handler runs; the handler turns any exception into the fixed message.
explain(reason_code, cache, e) ==
    IF Len(reason_code) < 1
    THEN Outcome([kind |-> "rejected", status |-> 422], cache)
    ELSE
        LET r == explain_decision(reason_code, cache, e)
        IN  IF r.ret.kind = "return"
            THEN Outcome(Return([reason_code |-> reason_code,
                                 explanation |-> r.ret.value]), r.cache)
            ELSE Outcome(Return([reason_code |-> reason_code,
                                 explanation |-> "Explanation temporarily unavailable."]),
                         r.cache)

ReasonCodes ==
    {"", "NO_SIGNIFICANT_RISK", "FRAUD_SIGNAL", "ANOMALY_SIGNAL",
     "FRAUD_SIGNAL_ANOMALY_SIGNAL", "QR_NEW_BENEFICIARY_HIGH_FRAUD_HIGH_ANOMALY",
     "INPUT_VALIDATION_FAILED"}

\* explain_decision(reason_code), called directly.
ExplainDecision ==
    /\ \E reason_code \in ReasonCodes :
        LET r == explain_decision(reason_code, Cache, env)
        IN  /\ args' = [op |-> "explain_decision", reason_code |-> reason_code]
            /\ ret' = r.ret
            /\ _model' = r.cache.model
            /\ _index' = r.cache.index
            /\ _chunks' = r.cache.chunks
    /\ UNCHANGED <<deploy, app, loc, hist, TRANSACTIONS, ANALYST_ACTIONS, env, logs_dir, audit_log, pc, buf,
                   logged, decisions>>

\* Mutant: the handler files the request in the analyst-action registry.
Explain_Recording ==
    /\ \E reason_code \in ReasonCodes :
        LET r == explain(reason_code, Cache, env)
        IN  /\ args' = [op |-> "/explain", reason_code |-> reason_code]
            /\ ret' = r.ret
            /\ _model' = r.cache.model
            /\ _index' = r.cache.index
            /\ _chunks' = r.cache.chunks
            /\ ANALYST_ACTIONS' = Append(ANALYST_ACTIONS, [txn_id |-> "explain",
                                          action |-> reason_code, notes |-> "None"])
    /\ UNCHANGED <<deploy, app, loc, hist, TRANSACTIONS, env, logs_dir, audit_log, pc, buf,
                   logged, decisions>>

\* A request to POST /explain.
Explain ==
    /\ \E reason_code \in ReasonCodes :
        LET r == explain(reason_code, Cache, env)
        IN  /\ args' = [op |-> "/explain", reason_code |-> reason_code]
            /\ ret' = r.ret
            /\ _model' = r.cache.model
            /\ _index' = r.cache.index
            /\ _chunks' = r.cache.chunks
    /\ UNCHANGED <<deploy, app, loc, hist, TRANSACTIONS, ANALYST_ACTIONS, env, logs_dir, audit_log, pc, buf,
                   logged, decisions>>

InitExplain ==
    /\ TRANSACTIONS = <<>>
    /\ ANALYST_ACTIONS = <<>>
    /\ _model = "None"
    /\ _index = "None"
    /\ _chunks = "None"
    /\ env \in Environments
    /\ logs_dir = FALSE
    /\ audit_log = <<>>
    /\ pc = <<>>
    /\ buf = <<>>
    /\ logged = <<>>
    /\ decisions = <<>>
    /\ deploy = Deployed
    /\ app = "running"
    /\ loc = NoLocals
    /\ hist = NoHistory
    /\ args = NoArgs
    /\ ret = NoRet

NextExplain == ExplainDecision \/ Explain

SpecExplain == InitExplain /\ [][NextExplain]_vars

\* C9: a call of explain_decision with the empty reason code raises
\* ValueError and leaves _model, _index and _chunks as they were.
C9_EmptyReasonCodeRaisesFirst ==
    [][(args'.op = "explain_decision" /\ args'.reason_code = "") =>
            /\ ret'.kind = "raise"
            /\ ret'.error = "ValueError"
            /\ UNCHANGED <<_model, _index, _chunks>>]_vars

\* The empty reason code was refused with nothing loaded although everything
\* could have been loaded.
C9_Witness ==
    /\ args.op = "explain_decision"
    /\ args.reason_code = ""
    /\ ret.kind = "raise"
    /\ env = [index_file |-> "ok", chunks_file |-> "ok", embedding_model |-> "ok"]
    /\ _model = "None"
    /\ _index = "None"
    /\ _chunks = "None"

Unavailable(e) ==
    \/ e.index_file # "ok"
    \/ e.chunks_file # "ok"
    \/ e.embedding_model # "ok"

\* C10: when the index, the chunk file or the embedding model is missing or
\* fails to load, a request to /explain is answered with the fixed message
\* "Explanation temporarily unavailable." and no exception leaves the handler.
C10_ExplainDegrades ==
    (args.op = "/explain" /\ args.reason_code # "" /\ Unavailable(env)) =>
        /\ ret.kind = "return"
        /\ ret.value.reason_code = args.reason_code
        /\ ret.value.explanation = "Explanation temporarily unavailable."

\* The index was read and cached, the chunk file is missing, and the request
\* got the fixed message.
C10_Witness ==
    /\ args.op = "/explain"
    /\ args.reason_code = "FRAUD_SIGNAL"
    /\ env.chunks_file = "missing"
    /\ _model = "loaded"
    /\ _index = "loaded"
    /\ _chunks = "None"
    /\ ret.kind = "return"
    /\ ret.value.explanation = "Explanation temporarily unavailable."

----------------------------------------------------------------------------
(* api/main.py: the imports that start the process, and the other endpoints. *)

MaxActions == 1         \* the analyst-action registry holds at most this many records

Deployments ==
    [fraud_model_file : {"missing", "ok"},
     anomaly_model_file : {"missing", "ok"},
     explainer_libraries : {"missing", "ok"}]

\* Importing api.decision_engine runs joblib.load on both model files.
import_decision_engine(d) ==
    IF d.fraud_model_file = "ok" /\ d.anomaly_model_file = "ok" THEN "ok" ELSE "raise"

\* Importing rag.explainer imports faiss, numpy and sentence_transformers;
\* the index, the chunks and the embedding model are not touched yet.
import_explainer(d) ==
    IF d.explainer_libraries = "ok" THEN "ok" ELSE "raise"

\* Importing api.main: both imports stand at the top of the module, so either
\* one raising leaves no application to serve any endpoint.
import_main(d) ==
    IF import_decision_engine(d) = "raise" THEN "failed"
    ELSE IF import_explainer(d) = "raise" THEN "failed"
    ELSE "running"

\* The server process starts: api.main is imported.
StartApp ==
    /\ app = "not_started"
    /\ app' = import_main(deploy)
    /\ args' = [op |-> "import"]
    /\ ret' = NoRet
    /\ UNCHANGED <<deploy, loc, hist, TRANSACTIONS, ANALYST_ACTIONS, _model, _index,
                   _chunks, env, logs_dir, audit_log, pc, buf, logged, decisions>>

\* A request reaches a process whose import failed: there is nothing to answer it.
NoService ==
    /\ app = "failed"
    /\ \/ \E reason_code \in ReasonCodes \ {""} :
            args' = [op |-> "/explain", reason_code |-> reason_code]
       \/ args' = [op |-> "/decision"]
    /\ ret' = [kind |-> "no_response"]
    /\ UNCHANGED <<deploy, app, loc, hist, TRANSACTIONS, ANALYST_ACTIONS, _model, _index,
                   _chunks, env, logs_dir, audit_log, pc, buf, logged, decisions>>

AnalystActionPayloads ==
    [txn_id : {"txn_a"}, action : {"CONFIRM_FRAUD", "FALSE_POSITIVE"}, notes : {"None"}]

\* log_analyst_action: the payload is appended (its timestamp is left out).
log_analyst_action(registry, action) == Append(registry, action)

\* POST /analyst/action
AnalystAction ==
    /\ Len(ANALYST_ACTIONS) < MaxActions
    /\ \E payload \in AnalystActionPayloads :
        /\ ANALYST_ACTIONS' = log_analyst_action(ANALYST_ACTIONS, payload)
        /\ args' = [op |-> "/analyst/action", payload |-> payload]
    /\ ret' = Return([status |-> "logged"])
    /\ UNCHANGED <<deploy, app, loc, hist, TRANSACTIONS, _model, _index, _chunks, env,
                   logs_dir, audit_log, pc, buf, logged, decisions>>

RECURSIVE SelectDecision(_, _)
SelectDecision(registry, filter_decision) ==
    IF registry = <<>> THEN <<>>
    ELSE IF Head(registry).decision = filter_decision
    THEN <<Head(registry)>> \o SelectDecision(Tail(registry), filter_decision)
    ELSE SelectDecision(Tail(registry), filter_decision)

list_transactions(registry, filter_decision) ==
    IF filter_decision = "ALL" THEN registry
    ELSE SelectDecision(registry, filter_decision)

\* GET /transactions
GetTransactions ==
    /\ \E filter \in {"ALL", "SOFT_BLOCK", "HARD_BLOCK", "ALLOW"} :
        /\ args' = [op |-> "/transactions", filter |-> filter]
        /\ ret' = Return(list_transactions(TRANSACTIONS, filter))
    /\ UNCHANGED <<deploy, app, loc, hist, TRANSACTIONS, ANALYST_ACTIONS, _model, _index,
                   _chunks, env, logs_dir, audit_log, pc, buf, logged, decisions>>

\* GET /health
HealthCheck ==
    /\ args' = [op |-> "/health"]
    /\ ret' = Return([status |-> "healthy"])
    /\ UNCHANGED <<deploy, app, loc, hist, TRANSACTIONS, ANALYST_ACTIONS, _model, _index,
                   _chunks, env, logs_dir, audit_log, pc, buf, logged, decisions>>

----------------------------------------------------------------------------
(* SpecApp: the API process from its start, with an audit log that earlier *)
(* callers of log_decision may have written.                                *)

PriorLogs == {<<>>} \cup {AuditLine(call, 0) : call \in LogCalls}

InitApp ==
    /\ TRANSACTIONS = <<>>
    /\ ANALYST_ACTIONS = <<>>
    /\ _model = "None"
    /\ _index = "None"
    /\ _chunks = "None"
    /\ env \in Environments
    /\ logs_dir = TRUE
    /\ audit_log \in PriorLogs
    /\ pc = <<>>
    /\ buf = <<>>
    /\ logged = <<>>
    /\ decisions = <<>>
    /\ args = NoArgs
    /\ ret = NoRet
    /\ deploy \in Deployments
    /\ app = "not_started"
    /\ loc = NoLocals
    /\ hist = NoHistory

\* Requests are served by a running process; explain_decision can also be
\* called by whoever managed to import rag.explainer.
NextApp ==
    \/ StartApp
    \/ NoService
    \/ (app = "running" /\ GetFraudDecision)
    \/ (app = "running" /\ Explain)
    \/ (app = "running" /\ AnalystAction)
    \/ (app = "running" /\ GetTransactions)
    \/ (app = "running" /\ HealthCheck)
    \/ (import_explainer(deploy) = "ok" /\ ExplainDecision)

SpecApp == InitApp /\ [][NextApp]_vars

\* C11: a request to /explain is answered whatever became of the scoring
\* models, and a request to /decision is answered whatever became of the
\* explainer's index, chunks, embedding model and module.
C11_PathsDecoupled ==
    /\ (args.op = "/explain" /\ import_explainer(deploy) = "ok") => ret.kind = "return"
    /\ (args.op = "/decision" /\ import_decision_engine(deploy) = "ok") =>
           ret.kind = "return"

ExplainOps == {"/explain", "explain_decision"}

\* C12: a call of explain_decision or a request to /explain leaves the
\* transaction registry, the analyst-action registry and the audit log as
\* they were, and what it answers is fixed by the reason code and by what
\* the explainer finds on disk.
C12_ExplainTouchesNoDecisionState ==
    [][(args'.op \in ExplainOps /\ app' = "running" /\ args'.reason_code # "") =>
            /\ UNCHANGED <<TRANSACTIONS, ANALYST_ACTIONS, audit_log, decisions>>
            /\ args'.op = "/explain" =>
                   ret'.value.explanation =
                       IF Unavailable(env)
                       THEN "Explanation temporarily unavailable."
                       ELSE Explanation(args'.reason_code)
            /\ args'.op = "explain_decision" =>
                   IF Unavailable(env)
                   THEN ret'.kind = "raise"
                   ELSE ret' = Return(Explanation(args'.reason_code))]_vars

\* An explanation was given while the analyst registry and the audit log held records.
C12_Witness ==
    /\ args.op = "/explain"
    /\ ret.kind = "return"
    /\ ret.value.explanation = Explanation("FRAUD_SIGNAL")
    /\ Len(ANALYST_ACTIONS) = 1
    /\ Len(audit_log) > 0

----------------------------------------------------------------------------
(* rag/explainer.py, the text side: _scrub_pii and the assembly of the     *)
(* explanation.  A text is a sequence of one-character strings; a literal  *)
(* fragment of the explanation that holds no digit, no "@" and no word     *)
(* character at either end is kept as one element.                         *)

MaxText == 6            \* a retrieved sentence has at most MaxText characters

Letters == {"a", "R", "E", "D", "A", "C", "T"}
Digits == {"1"}

\* \w and \d of the re module, on the characters that occur here.
IsWord(c) == c \in Letters \cup Digits \cup {"_"}
IsDigit(c) == c \in Digits

\* The replacement string "[REDACTED]".
REDACTED == <<"[", "R", "E", "D", "A", "C", "T", "E", "D", "]">>

WordAt(t, k) == k \in 1..Len(t) /\ IsWord(t[k])

\* \b between the characters k-1 and k.
Boundary(t, k) == WordAt(t, k - 1) # WordAt(t, k)

\* Where the longest run of [\w<extra>] that starts at i stops.
RECURSIVE RunEnd(_, _, _)
RunEnd(t, i, extra) ==
    IF i <= Len(t) /\ (IsWord(t[i]) \/ t[i] \in extra)
    THEN RunEnd(t, i + 1, extra)
    ELSE i

RECURSIVE DigitRunEnd(_, _)
DigitRunEnd(t, i) ==
    IF i <= Len(t) /\ IsDigit(t[i]) THEN DigitRunEnd(t, i + 1) ELSE i

Max(S) == CHOOSE x \in S : \A y \in S : y <= x

\* \b[\w.%-]+@[\w.-]+\.[A-Za-z]{2,6}\b tried at i: the position after the
\* match the backtracking search finds first, 0 when there is none.
EmailEnd(t, i) ==
    LET a == RunEnd(t, i, {".", "%", "-"})
        b == RunEnd(t, a + 1, {".", "-"})
        tld(p) == {k \in 2..6 :
                      /\ p + k <= Len(t)
                      /\ \A j \in (p + 1)..(p + k) : t[j] \in Letters
                      /\ Boundary(t, p + k + 1)}
        dots == {p \in (a + 2)..(b - 1) : t[p] = "." /\ tld(p) # {}}
    IN  IF ~Boundary(t, i) \/ a = i \/ a > Len(t) THEN 0
        ELSE IF t[a] # "@" \/ dots = {} THEN 0
        ELSE Max(dots) + Max(tld(Max(dots))) + 1

\* \d{5,} tried at i.
DigitsEnd(t, i) ==
    IF DigitRunEnd(t, i) - i >= 5 THEN DigitRunEnd(t, i) ELSE 0

\* \b[\w.-]+@[\w.-]+\b tried at i.
HandleEnd(t, i) ==
    LET a == RunEnd(t, i, {".", "-"})
        b == RunEnd(t, a + 1, {".", "-"})
        ends == {e \in (a + 2)..b : Boundary(t, e)}
    IN  IF ~Boundary(t, i) \/ a = i \/ a > Len(t) THEN 0
        ELSE IF t[a] # "@" \/ ends = {} THEN 0
        ELSE Max(ends)

MatchEnd(pattern, t, i) ==
    CASE pattern = "email" -> EmailEnd(t, i)
      [] pattern = "digits" -> DigitsEnd(t, i)
      [] pattern = "handle" -> HandleEnd(t, i)

\* re.sub(pattern, "[REDACTED]", t), scanning from i: leftmost matches, none
\* overlapping, each looked for in the text as it was given.
RECURSIVE re_sub(_, _, _)
re_sub(pattern, t, i) ==
    IF i > Len(t) THEN <<>>
    ELSE IF MatchEnd(pattern, t, i) # 0
    THEN REDACTED \o re_sub(pattern, t, MatchEnd(pattern, t, i))
    ELSE <<t[i]>> \o re_sub(pattern, t, i + 1)

_scrub_pii(text) ==
    re_sub("handle", re_sub("digits", re_sub("email", text, 1), 1), 1)

Contains(list, x) == \E i \in 1..Len(list) : list[i] = x

\* The loop over the extracted sentences: scrub, drop what is empty or
\* already there.
RECURSIVE summary_sentences(_, _)
summary_sentences(sentences, acc) ==
    IF sentences = <<>> THEN acc
    ELSE LET cleaned == _scrub_pii(Head(sentences))
         IN  IF cleaned # <<>> /\ ~Contains(acc, cleaned)
             THEN summary_sentences(Tail(sentences), Append(acc, cleaned))
             ELSE summary_sentences(Tail(sentences), acc)

\* " ".join(list)
RECURSIVE JoinSpace(_)
JoinSpace(list) ==
    IF list = <<>> THEN <<>>
    ELSE IF Len(list) = 1 THEN Head(list)
    ELSE Head(list) \o <<" ">> \o JoinSpace(Tail(list))

body(sentences) ==
    IF summary_sentences(sentences, <<>>) = <<>>
    THEN <<"No relevant guidance found in the knowledge index.">>
    ELSE JoinSpace(summary_sentences(sentences, <<>>))

\* The f-string that explain_decision returns.
explanation(reason_code, sentences) ==
    <<"Explanation for reason code '">> \o reason_code \o <<"':\nSummary: ">>
        \o body(sentences) \o <<"\nBehavior patterns referenced: ...">>

----------------------------------------------------------------------------
(* SpecScrub: explain_decision on a loaded explainer, for a reason code    *)
(* and the sentences that retrieval and extraction hand to the scrubber.   *)

Alphabet == {"a", "1", "@", "."}

Texts == UNION {[1..n -> Alphabet] : n \in 0..MaxText}

ScrubReasonCodes ==
    {<<"a">>, <<"1", "1", "1", "1", "1">>, <<"a", "@", "a">>}

SentenceLists ==
    {<<>>} \cup {<<t>> : t \in Texts}
           \cup {<<t, u>> : t \in Texts, u \in {<<"1", "1", "1">>, <<"a", "@">>}}

InitScrub ==
    /\ Quiet
    /\ args \in [op : {"explain_decision"}, reason_code : {<<"a">>},
                 sentences : SentenceLists]
            \cup [op : {"explain_decision"}, reason_code : ScrubReasonCodes,
                  sentences : {<<>>, << <<"a", "1">> >>}]
    /\ ret = NoRet

ExplainText ==
    /\ ret.kind = "none"
    /\ ret' = Return(explanation(args.reason_code, args.sentences))
    /\ UNCHANGED <<deploy, app, loc, hist, TRANSACTIONS, ANALYST_ACTIONS, _model, _index,
                   _chunks, env, logs_dir, audit_log, pc, buf, logged, decisions, args>>

NextScrub == ExplainText

SpecScrub == InitScrub /\ [][NextScrub]_vars

HasDigitRun(t) == \E i \in 1..Len(t) : DigitRunEnd(t, i) - i >= 5

HasHandle(t) == \E i \in 1..Len(t) : t[i] = "@" /\ WordAt(t, i - 1) /\ WordAt(t, i + 1)

\* The summary alone: what was assembled from the retrieved sentences holds
\* no run of five digits and no word@word.
SummaryIsScrubbed ==
    ret.kind = "return" =>
        /\ ~HasDigitRun(body(args.sentences))
        /\ ~HasHandle(body(args.sentences))

\* C13: the string explain_decision returns holds no run of 5 or more
\* digits and no local@domain-shaped token, for every reason code and
\* every retrieved text.
C13_NoPiiInExplanation ==
    ret.kind = "return" => ~HasDigitRun(ret.value) /\ ~HasHandle(ret.value)

----------------------------------------------------------------------------
(* SpecRepeat: explain_decision called again and again in one process,     *)
(* against files that stay as they are; hist keeps, for each reason code,  *)
(* how often it was explained and how its first call ended.                *)

MaxExplains == 2        \* calls of explain_decision per reason code

RepeatedReasonCodes == {"FRAUD_SIGNAL", "ANOMALY_SIGNAL"}

InitRepeat ==
    /\ TRANSACTIONS = <<>>
    /\ ANALYST_ACTIONS = <<>>
    /\ _model = "None"
    /\ _index = "None"
    /\ _chunks = "None"
    /\ env \in Environments
    /\ logs_dir = TRUE
    /\ audit_log = <<>>
    /\ pc = <<>>
    /\ buf = <<>>
    /\ logged = <<>>
    /\ decisions = <<>>
    /\ args = NoArgs
    /\ ret = NoRet
    /\ deploy = Deployed
    /\ app = "running"
    /\ loc = NoLocals
    /\ hist = [calls |-> [c \in RepeatedReasonCodes |-> 0],
               first |-> [c \in RepeatedReasonCodes |-> NoRet]]

\* A call of explain_decision(reason_code), noted in hist.
ExplainAgain ==
    /\ \E reason_code \in RepeatedReasonCodes :
        LET r == explain_decision(reason_code, Cache, env)
        IN  /\ hist.calls[reason_code] < MaxExplains
            /\ args' = [op |-> "explain_decision", reason_code |-> reason_code]
            /\ ret' = r.ret
            /\ _model' = r.cache.model
            /\ _index' = r.cache.index
            /\ _chunks' = r.cache.chunks
            /\ hist' = [calls |-> [hist.calls EXCEPT ![reason_code] = @ + 1],
                        first |-> IF hist.calls[reason_code] = 0
                                  THEN [hist.first EXCEPT ![reason_code] = r.ret]
                                  ELSE hist.first]
    /\ UNCHANGED <<deploy, app, loc, TRANSACTIONS, ANALYST_ACTIONS, env, logs_dir,
                   audit_log, pc, buf, logged, decisions>>

NextRepeat == ExplainAgain \/ Explain

SpecRepeat == InitRepeat /\ [][NextRepeat]_vars

\* C14: with the index, the chunk list and the embedding model fixed, every
\* call of explain_decision ends as the first call with the same reason code
\* ended: the same string when it returns, whether the call loaded the
\* explainer itself or found it cached, and whatever was explained in between.
C14_SameCodeSameExplanation ==
    args.op = "explain_decision" => ret = hist.first[args.reason_code]

\* A reason code explained a second time, from the cache, after another one.
C14_Witness ==
    /\ args = [op |-> "explain_decision", reason_code |-> "FRAUD_SIGNAL"]
    /\ ret = Return(Explanation("FRAUD_SIGNAL"))
    /\ hist.calls["FRAUD_SIGNAL"] = 2
    /\ hist.calls["ANOMALY_SIGNAL"] >= 1

----------------------------------------------------------------------------
(* SpecThreads: threads of one process inside explain_decision at the same *)
(* time.  Each step below is one check or one load of _load_model or       *)
(* _load_index_and_chunks; a thread can be switched out between any two.   *)
(* loc holds each thread's position, hist counts the loads.  Every object  *)
(* a load builds gets a name of its own.                                   *)

MaxThreads == 2
MaxThreadCalls == 2     \* calls of explain_decision per thread

Threads == 1..MaxThreads

Idle == [pc |-> "idle", index |-> "None", chunks |-> "None"]

InitThreads ==
    /\ TRANSACTIONS = <<>>
    /\ ANALYST_ACTIONS = <<>>
    /\ _model = "None"
    /\ _index = "None"
    /\ _chunks = "None"
    /\ env \in Environments
    /\ logs_dir = TRUE
    /\ audit_log = <<>>
    /\ pc = <<>>
    /\ buf = <<>>
    /\ logged = <<>>
    /\ decisions = <<>>
    /\ args = NoArgs
    /\ ret = NoRet
    /\ deploy = Deployed
    /\ app = "running"
    /\ loc = [t \in Threads |-> Idle]
    /\ hist = [calls |-> [t \in Threads |-> 0],
               model_loads |-> 0, index_loads |-> 0, chunk_loads |-> 0]

Goto(t, label) == loc' = [loc EXCEPT ![t].pc = label]

ThreadRaises(t, error) ==
    /\ loc' = [loc EXCEPT ![t] = Idle]
    /\ ret' = Raise(error)

ThreadFrame ==
    UNCHANGED <<deploy, app, TRANSACTIONS, ANALYST_ACTIONS, env, logs_dir, audit_log, pc,
                buf, logged, decisions>>

\* explain_decision("FRAUD_SIGNAL") is entered.
ThreadCall(t) ==
    /\ loc[t].pc = "idle"
    /\ hist.calls[t] < MaxThreadCalls
    /\ hist' = [hist EXCEPT !.calls[t] = @ + 1]
    /\ loc' = [loc EXCEPT ![t] = [Idle EXCEPT !.pc = "check_model"]]
    /\ args' = [op |-> "explain_decision", reason_code |-> "FRAUD_SIGNAL", thread |-> t]
    /\ UNCHANGED <<_model, _index, _chunks, ret>>
    /\ ThreadFrame

\* if _model is None:
CheckModel(t) ==
    /\ loc[t].pc = "check_model"
    /\ Goto(t, IF _model = "None" THEN "load_model" ELSE "check_index")
    /\ UNCHANGED <<_model, _index, _chunks, args, ret, hist>>
    /\ ThreadFrame

\* _model = SentenceTransformer(MODEL_NAME)
LoadModel(t) ==
    /\ loc[t].pc = "load_model"
    /\ IF env.embedding_model = "ok"
       THEN /\ _model' = "model#" \o ToString(hist.model_loads + 1)
            /\ hist' = [hist EXCEPT !.model_loads = @ + 1]
            /\ Goto(t, "check_index")
            /\ UNCHANGED ret
       ELSE /\ ThreadRaises(t, "OSError")
            /\ UNCHANGED <<_model, hist>>
    /\ UNCHANGED <<_index, _chunks, args>>
    /\ ThreadFrame

\* if _index is None:
CheckIndex(t) ==
    /\ loc[t].pc = "check_index"
    /\ Goto(t, IF _index = "None" THEN "read_index" ELSE "check_chunks")
    /\ UNCHANGED <<_model, _index, _chunks, args, ret, hist>>
    /\ ThreadFrame

\* _index = faiss.read_index(VECTOR_INDEX_PATH)
ReadIndex(t) ==
    /\ loc[t].pc = "read_index"
    /\ IF env.index_file = "ok"
       THEN /\ _index' = "index#" \o ToString(hist.index_loads + 1)
            /\ hist' = [hist EXCEPT !.index_loads = @ + 1]
            /\ Goto(t, "check_chunks")
            /\ UNCHANGED ret
       ELSE /\ ThreadRaises(t, IF env.index_file = "missing"
                               THEN "FileNotFoundError" ELSE "RuntimeError")
            /\ UNCHANGED <<_index, hist>>
    /\ UNCHANGED <<_model, _chunks, args>>
    /\ ThreadFrame

\* if _chunks is None:
CheckChunks(t) ==
    /\ loc[t].pc = "check_chunks"
    /\ Goto(t, IF _chunks = "None" THEN "read_chunks" ELSE "return")
    /\ UNCHANGED <<_model, _index, _chunks, args, ret, hist>>
    /\ ThreadFrame

\* _chunks = pickle.load(fh)
ReadChunks(t) ==
    /\ loc[t].pc = "read_chunks"
    /\ IF env.chunks_file = "ok"
       THEN /\ _chunks' = "chunks#" \o ToString(hist.chunk_loads + 1)
            /\ hist' = [hist EXCEPT !.chunk_loads = @ + 1]
            /\ Goto(t, "return")
            /\ UNCHANGED ret
       ELSE /\ ThreadRaises(t, IF env.chunks_file = "missing"
                               THEN "FileNotFoundError" ELSE "UnpicklingError")
            /\ UNCHANGED <<_chunks, hist>>
    /\ UNCHANGED <<_model, _index, args>>
    /\ ThreadFrame

\* return _index, _chunks; the rest of explain_decision works on that pair.
ThreadReturn(t) ==
    /\ loc[t].pc = "return"
    /\ loc' = [loc EXCEPT ![t] = [pc |-> "idle", index |-> _index, chunks |-> _chunks]]
    /\ ret' = Return(Explanation("FRAUD_SIGNAL"))
    /\ UNCHANGED <<_model, _index, _chunks, args, hist>>
    /\ ThreadFrame

NextThreads ==
    \E t \in Threads :
        \/ ThreadCall(t)
        \/ CheckModel(t)
        \/ LoadModel(t)
        \/ CheckIndex(t)
        \/ ReadIndex(t)
        \/ CheckChunks(t)
        \/ ReadChunks(t)
        \/ ThreadReturn(t)

SpecThreads == InitThreads /\ [][NextThreads]_vars

\* C15: in one process the index is read at most once and the chunk list
\* is read at most once, however the callers of explain_decision interleave;
\* a global that was set is never set again.
C15_LoadedAtMostOnce ==
    hist.index_loads <= 1 /\ hist.chunk_loads <= 1

----------------------------------------------------------------------------
(* rag/explainer.py: _extract_relevant_sentences, on texts that are        *)
(* sequences of one-character strings.                                     *)

MaxChunk == 5           \* a chunk has at most MaxChunk characters

max_sentences == 2

Whitespace == {" ", "\n"}

\* str.lower, character by character.
lower(t) == [i \in 1..Len(t) |-> IF t[i] = "A" THEN "a" ELSE IF t[i] = "B" THEN "b" ELSE t[i]]

RECURSIVE lstrip(_)
lstrip(t) ==
    IF t # <<>> /\ Head(t) \in Whitespace THEN lstrip(Tail(t)) ELSE t

RECURSIVE rstrip(_)
rstrip(t) ==
    IF t # <<>> /\ t[Len(t)] \in Whitespace THEN rstrip(SubSeq(t, 1, Len(t) - 1)) ELSE t

\* str.strip
strip(t) == rstrip(lstrip(t))

\* token in text
In(token, text) ==
    \E k \in 1..(Len(text) - Len(token) + 1) : SubSeq(text, k, k + Len(token) - 1) = token

RECURSIVE SpanEnd(_, _, _)
SpanEnd(t, i, class) ==
    IF i <= Len(t) /\ t[i] \in class THEN SpanEnd(t, i + 1, class) ELSE i

\* (?<=[.!?])\s+|\n+ tried at i: the position after the match, 0 when
\* neither alternative matches.
SeparatorEnd(t, i) ==
    IF i > 1 /\ t[i - 1] \in {".", "!", "?"} /\ t[i] \in Whitespace
    THEN SpanEnd(t, i, Whitespace)
    ELSE IF t[i] = "\n" THEN SpanEnd(t, i, {"\n"})
    ELSE 0

\* re.split(pattern, t), scanning from i with the part gathered so far.
RECURSIVE re_split(_, _, _)
re_split(t, i, part) ==
    IF i > Len(t) THEN <<part>>
    ELSE IF SeparatorEnd(t, i) # 0
    THEN <<part>> \o re_split(t, SeparatorEnd(t, i), <<>>)
    ELSE re_split(t, i + 1, Append(part, t[i]))

lowered_tokens(query_tokens) ==
    {lower(query_tokens[i]) : i \in {j \in 1..Len(query_tokens) : query_tokens[j] # <<>>}}

\* The first loop: the parts that hold a query token, until the cap.
RECURSIVE SelectMatching(_, _, _, _)
SelectMatching(parts, tokens, cap, selected) ==
    IF parts = <<>> THEN selected
    ELSE IF Head(parts) = <<>> \/ Len(selected) >= cap
    THEN SelectMatching(Tail(parts), tokens, cap, selected)
    ELSE IF \E token \in tokens : In(token, lower(Head(parts)))
    THEN SelectMatching(Tail(parts), tokens, cap, Append(selected, strip(Head(parts))))
    ELSE SelectMatching(Tail(parts), tokens, cap, selected)

\* The second loop: the first parts that are not blank, with its break.
RECURSIVE FirstSentences(_, _, _)
FirstSentences(parts, cap, selected) ==
    IF parts = <<>> THEN selected
    ELSE LET next == IF strip(Head(parts)) # <<>>
                     THEN Append(selected, strip(Head(parts)))
                     ELSE selected
         IN  IF Len(next) >= cap THEN next
             ELSE FirstSentences(Tail(parts), cap, next)

\* Mutant: the first loop runs without the cap.
_extract_relevant_sentences_Uncapped(chunk, query_tokens, cap) ==
    LET parts == re_split(chunk, 1, <<>>)
        selected == SelectMatching(parts, lowered_tokens(query_tokens), Len(parts), <<>>)
    IN  IF selected = <<>> THEN FirstSentences(parts, cap, <<>>) ELSE selected

_extract_relevant_sentences(chunk, query_tokens, cap) ==
    LET parts == re_split(chunk, 1, <<>>)
        selected == SelectMatching(parts, lowered_tokens(query_tokens), cap, <<>>)
    IN  IF selected = <<>> THEN FirstSentences(parts, cap, <<>>) ELSE selected

----------------------------------------------------------------------------
(* SpecExtract: _extract_relevant_sentences on every small chunk.          *)

ChunkAlphabet == {"a", "A", "b", ".", " ", "\n"}

Chunks == UNION {[1..n -> ChunkAlphabet] : n \in 0..MaxChunk}

\* Lists of \w+ tokens, as re.findall hands them over.
QueryTokenLists == {<<>>, << <<"a">> >>, << <<"a", "b">> >>, << <<"b">>, <<"a", "a">> >>}

InitExtract ==
    /\ Quiet
    /\ args \in [op : {"_extract_relevant_sentences"}, chunk : Chunks,
                 query_tokens : QueryTokenLists]
    /\ ret = NoRet

Extract ==
    /\ ret.kind = "none"
    /\ ret' = Return(_extract_relevant_sentences(args.chunk, args.query_tokens,
                                                 max_sentences))
    /\ UNCHANGED <<deploy, app, loc, hist, TRANSACTIONS, ANALYST_ACTIONS, _model, _index,
                   _chunks, env, logs_dir, audit_log, pc, buf, logged, decisions, args>>

NextExtract == Extract

SpecExtract == InitExtract /\ [][NextExtract]_vars

\* The sentences of the chunk in args and the positions of those that hold a
\* query token, case put aside, and of those that are not blank.
Sentences == re_split(args.chunk, 1, <<>>)

HoldsToken(s) ==
    \E i \in 1..Len(args.query_tokens) :
        args.query_tokens[i] # <<>> /\ In(lower(args.query_tokens[i]), lower(s))

Matching == {i \in 1..Len(Sentences) : HoldsToken(Sentences[i])}

NonBlank == {i \in 1..Len(Sentences) : strip(Sentences[i]) # <<>>}

\* The positions of S that have fewer than k positions of S before them.
Earliest(S, k) == {i \in S : Cardinality({j \in S : j < i}) < k}

\* The result lists the sentences at the positions P, stripped, in order.
ListsInOrder(result, P) ==
    /\ Len(result) = Cardinality(P)
    /\ \A i \in P : result[Cardinality({j \in P : j < i}) + 1] = strip(Sentences[i])

\* C16: _extract_relevant_sentences returns at most 2 sentences, in their
\* order in the chunk: the first ones that hold a query token when some
\* sentence does, each of them holding one, and otherwise the first ones that
\* are not blank.
C16_ExtractRelevantSentences ==
    ret.kind = "return" =>
        /\ Len(ret.value) <= 2
        /\ Matching # {} =>
               /\ ListsInOrder(ret.value, Earliest(Matching, 2))
               /\ \A k \in 1..Len(ret.value) : HoldsToken(ret.value[k])
        /\ Matching = {} => ListsInOrder(ret.value, Earliest(NonBlank, 2))

\* Three sentences hold a token and the first two, which differ, come back.
C16_Witness ==
    /\ ret.kind = "return"
    /\ Cardinality(Matching) = 3
    /\ Cardinality(NonBlank) = 3
    /\ Len(ret.value) = 2
    /\ ret.value[1] # ret.value[2]

----------------------------------------------------------------------------
(* The /decision handler around make_decision, under SpecDecision.         *)

Carries(record, decision) ==
    /\ record.decision = decision.decision
    /\ record.risk_score = decision.risk_score
    /\ record.anomaly_score = decision.anomaly_score
    /\ record.reason_code = decision.reason_code

\* What the handler owes for an outcome of make_decision: the answer given
\* and the registry before and after.
HandlerContract(decision, answer, before, after) ==
    IF decision.kind = "raise"
    THEN /\ answer = Return(SAFE_ALLOW_RESPONSE)
         /\ answer.value.decision = "ALLOW"
         /\ answer.value.reason_code = "INPUT_VALIDATION_FAILED"
         /\ after = before
    ELSE /\ answer = Return(decision.value)
         /\ Len(after) = Len(before) + 1
         /\ Tail(after) = before
         /\ Carries(Head(after), decision.value)

\* C17: a request to /decision whose make_decision raises is answered with
\* the fixed ALLOW / INPUT_VALIDATION_FAILED and stores nothing; one whose
\* make_decision returns is answered with that decision and puts one record
\* carrying it at the head of the registry.  The second half is also put to
\* the handler for every decision make_decision has returned to a direct
\* caller.
C17_FallbackOnFailure ==
    [][args'.op = "/decision" =>
           /\ HandlerContract(make_decision(PayloadFeatureRow(args'.payload), args'.oracle),
                              ret', TRANSACTIONS, TRANSACTIONS')
           /\ \A i \in 1..Len(decisions'), txn_id \in TxnIds :
                  HandlerContract(Return(decisions'[i]),
                                  get_fraud_decision(args'.payload, Return(decisions'[i]),
                                                     txn_id, TRANSACTIONS').ret,
                                  TRANSACTIONS',
                                  get_fraud_decision(args'.payload, Return(decisions'[i]),
                                                     txn_id, TRANSACTIONS').TRANSACTIONS)]_vars

\* A request whose row lacks beneficiary_is_new got the fallback, after a
\* direct call of make_decision had returned a decision.
C17_Witness ==
    /\ args.op = "/decision"
    /\ make_decision(PayloadFeatureRow(args.payload), args.oracle) = Raise("KeyError")
    /\ ret = Return(SAFE_ALLOW_RESPONSE)
    /\ TRANSACTIONS = <<>>
    /\ Len(decisions) = 1

----------------------------------------------------------------------------
(* rag/build_index.py: chunk_text, one step per iteration of its loop.     *)
(* args holds text and max_chars, loc holds start and chunks; positions    *)
(* count from 0 as in the source.                                          *)

MaxTextLen == 6         \* len(text) <= MaxTextLen
MaxChars == 3           \* max_chars ranges over 1..MaxChars

ChunkTexts == UNION {[1..n -> {"a", " "}] : n \in 0..MaxTextLen}

\* text[a:b]
Slice(text, a, b) == SubSeq(text, a + 1, b)

\* text.rfind(" ", a, b)
rfind_space(text, a, b) ==
    IF \E k \in a..(b - 1) : text[k + 1] = " "
    THEN CHOOSE k \in a..(b - 1) :
             /\ text[k + 1] = " "
             /\ \A j \in (k + 1)..(b - 1) : text[j + 1] # " "
    ELSE -1

min(a, b) == IF a <= b THEN a ELSE b

\* Mutant: a space at the very start of the window is taken as the boundary.
chunk_end_AtOrAfterStart(text, max_chars, start) ==
    LET end == min(start + max_chars, Len(text))
    IN  IF end < Len(text) /\ rfind_space(text, start, end) >= start
        THEN rfind_space(text, start, end)
        ELSE end

\* Where the chunk that begins at start ends.
chunk_end(text, max_chars, start) ==
    LET end == min(start + max_chars, Len(text))
    IN  IF end < Len(text) /\ rfind_space(text, start, end) > start
        THEN rfind_space(text, start, end)
        ELSE end

InitChunk ==
    /\ TRANSACTIONS = <<>>
    /\ ANALYST_ACTIONS = <<>>
    /\ _model = "None"
    /\ _index = "None"
    /\ _chunks = "None"
    /\ env = [index_file |-> "ok", chunks_file |-> "ok", embedding_model |-> "ok"]
    /\ logs_dir = TRUE
    /\ audit_log = <<>>
    /\ pc = <<>>
    /\ buf = <<>>
    /\ logged = <<>>
    /\ decisions = <<>>
    /\ args \in [op : {"chunk_text"}, text : ChunkTexts, max_chars : 1..MaxChars]
    /\ ret = NoRet
    /\ deploy = Deployed
    /\ app = "running"
    /\ loc = [pc |-> "while", start |-> 0, chunks |-> <<>>]
    /\ hist = NoHistory

ChunkFrame ==
    UNCHANGED <<deploy, app, hist, TRANSACTIONS, ANALYST_ACTIONS, _model, _index, _chunks,
                env, logs_dir, audit_log, pc, buf, logged, decisions, args>>

\* One pass through the body of `while start < length`.
ChunkLoop ==
    /\ loc.pc = "while"
    /\ loc.start < Len(args.text)
    /\ LET end == chunk_end(args.text, args.max_chars, loc.start)
           chunk == strip(Slice(args.text, loc.start, end))
       IN  loc' = [pc |-> "while", start |-> end,
                   chunks |-> IF chunk # <<>> THEN Append(loc.chunks, chunk)
                              ELSE loc.chunks]
    /\ UNCHANGED ret
    /\ ChunkFrame

\* The loop is left: return chunks.
ChunkReturn ==
    /\ loc.pc = "while"
    /\ loc.start >= Len(args.text)
    /\ loc' = [loc EXCEPT !.pc = "done"]
    /\ ret' = Return(loc.chunks)
    /\ ChunkFrame

NextChunk == ChunkLoop \/ ChunkReturn

\* A call that is running keeps running.
SpecChunk == InitChunk /\ [][NextChunk]_vars /\ WF_vars(NextChunk)

\* The window of the pass that begins at start, and the spaces in it after
\* its first character.
WindowEnd == min(loc.start + args.max_chars, Len(args.text))

SpacesInWindow == {k \in (loc.start + 1)..(WindowEnd - 1) : args.text[k + 1] = " "}

ChunksFit == \A i \in 1..Len(loc.chunks) : Len(loc.chunks[i]) <= args.max_chars

\* C18 as stated: chunk_text returns, start grows on every pass, no chunk
\* is longer than max_chars, and every window that holds a space after its
\* first character ends its chunk at the last such space.
C18_ChunkText ==
    /\ []ChunksFit
    /\ [][loc.pc = "while" /\ loc'.pc = "while" =>
              /\ loc'.start > loc.start
              /\ SpacesInWindow # {} => loc'.start = Max(SpacesInWindow)]_vars
    /\ <>(loc.pc = "done" /\ ret.kind = "return")

\* C18, amended: the same, the boundary rule holding for every window that
\* stops short of the end of the text; the window that reaches the end of
\* the text is one chunk, spaces or not.
C18_ChunkTextShortOfEnd ==
    /\ []ChunksFit
    /\ [][loc.pc = "while" /\ loc'.pc = "while" =>
              /\ loc'.start > loc.start
              /\ (SpacesInWindow # {} /\ WindowEnd < Len(args.text)) =>
                     loc'.start = Max(SpacesInWindow)
              /\ WindowEnd = Len(args.text) => loc'.start = Len(args.text)]_vars
    /\ <>(loc.pc = "done" /\ ret.kind = "return")

\* "aa aa" cut at 3: the first window ends at its space, the last one takes
\* the rest.
C18_Witness ==
    /\ args.text = <<"a", "a", " ", "a", "a">>
    /\ args.max_chars = 3
    /\ loc.pc = "done"
    /\ ret = Return(<< <<"a", "a">>, <<"a", "a">> >>)

====
